---- MODULE Spec2Model ----
(***************************************************************************)
(* Model of companion-module-newbluefx-titler (src/index.js): the feedback *)
(* state cache with its asynchronous rebuild pipeline, and the connection  *)
(* lifecycle with its reconnect watchdog.                                  *)
(*                                                                         *)
(* JavaScript strings are sequences of one-character strings, JavaScript   *)
(* objects are functions from field names to values, and an array is a     *)
(* sequence.  A value that may be undefined is <<>> (undefined) or <<v>>.  *)
(***************************************************************************)
EXTENDS Integers, Sequences, FiniteSets, TLC

\* ---------------------------------------------------------------- bounds
MaxSockets == 3        \* socket objects alive at once (closed ones are collected)
MaxQueue == 2          \* length of cacheMisses
MaxInflight == 2       \* detail queries not yet settled
MaxTimers == 2         \* live Rebuilder intervals are counted up to this ("or more")
MaxOptions == 2        \* properties of an option object passed to makeCacheKeyUsingOptions

SocketIds == 1..MaxSockets

\* ------------------------------------------------------- strings, objects
Tilde == "~"
Undefined == <<"<undefined>">>      \* a field holding the value undefined

\* JS object helpers: hasOwnProperty, delete, assignment
Has(obj, f) == f \in DOMAIN obj
Del(obj, f) == [x \in (DOMAIN obj) \ {f} |-> obj[x]]
Put(obj, f, v) == [x \in (DOMAIN obj) \cup {f} |-> IF x = f THEN v ELSE obj[x]]
EmptyObj == [x \in {} |-> "undefined"]

\* String.prototype.split(sep) for a one-character separator
RECURSIVE SplitFrom(_, _, _)
SplitFrom(s, sep, cur) ==
    IF s = <<>> THEN <<cur>>
    ELSE IF Head(s) = sep THEN <<cur>> \o SplitFrom(Tail(s), sep, <<>>)
    ELSE SplitFrom(Tail(s), sep, Append(cur, Head(s)))

Split(s, sep) == SplitFrom(s, sep, <<>>)

\* template literal `${actorId}~${feedbackId}`
FeedbackKey(actorId, feedbackId) == actorId \o <<Tilde>> \o feedbackId

\* JSON.stringify of an option object; options are kept as the sequence of
\* their <<key, value>> pairs in insertion order, which is the order
\* JSON.stringify walks them in
RECURSIVE JSONPairs(_)
JSONPairs(pairs) ==
    IF pairs = <<>> THEN <<>>
    ELSE <<"\"", Head(pairs)[1], "\"", ":", "\"", Head(pairs)[2], "\"">>
         \o (IF Len(pairs) > 1 THEN <<",">> ELSE <<>>)
         \o JSONPairs(Tail(pairs))

JSONStringify(options) == <<"{">> \o JSONPairs(options) \o <<"}">>

\* crypto md5 hex digest: a deterministic function of its input, taken to be
\* collision free on the inputs of the model
Md5Hex(text) == <<"md5(">> \o text \o <<")">>

\* the suffix appended whatever the options hold
makeCacheKeyAlwaysHashes(key, options) ==
    key \o <<"+">> \o Md5Hex(JSONStringify(options))

\* (an options argument that is undefined or null takes the same branch as
\* one without properties; both are the empty sequence here)
makeCacheKeyUsingOptions(key, options) ==
    IF Len(options) > 0
    THEN key \o <<"+">> \o Md5Hex(JSONStringify(options))
    ELSE key

\* ----------------------------------------------------------------- state
VARIABLES
    sockets,                \* socket slot -> "none" | "connecting" | "errored" | "open" | "connected"
    connectionWatchdog,     \* module-level handle: TRUE when it holds a timer
    watchdogTimers,         \* number of live reconnect intervals
    status,                 \* [level, text] last passed to this.status()
    statusBy,               \* socket whose handshake set status; 0 none; -1 that socket has closed
    hasQueryFns,            \* this.queryFeedbackDetails / queryFeedbackState are defined
    images,                 \* this.images: <<>> undefined, <<obj>> otherwise
    imageSetPending,        \* sockets with a getImageSet reply outstanding
    scheduler,              \* module-level scheduler: the socket whose channel object it is, 0 for {}
    localFeedbackCache,     \* fingerprint -> resolved value (JS object)
    pendingFeedbackChanges, \* identities carrying the "stale" marker
    cacheMisses,            \* array of [id, options]
    cacheBuilder,           \* module-level handle: TRUE when it holds a timer
    thisCacheBuilder,       \* instance field this.cacheBuilder: TRUE when it holds a timer
    cacheBuilderTimers,     \* number of live Rebuilder intervals (saturates at MaxTimers)
    inflight,               \* detail queries issued and not settled
    lastWritten,            \* fingerprint -> value of the latest Rebuilder write
    refreshOwed,            \* banks neither evaluated nor queried since the last push for their identity
    hist,                   \* history of the writes: see HistInit
    lastOp,                 \* the handler that ran last: [op, arg]
    ret,                    \* return value of the last feedback(): <<>> undefined
    checkFeedbacksCalled    \* the last handler called this.checkFeedbacks()

connVars == <<sockets, connectionWatchdog, watchdogTimers, status, statusBy,
              hasQueryFns, images, imageSetPending, scheduler>>
cacheVars == <<localFeedbackCache, pendingFeedbackChanges, cacheMisses, cacheBuilder,
               thisCacheBuilder, cacheBuilderTimers, inflight, lastWritten, refreshOwed, hist>>
obsVars == <<lastOp, ret, checkFeedbacksCalled>>
vars == <<connVars, cacheVars, obsVars>>

\* an observation of a handler that is not feedback() and calls no checkFeedbacks
Op(op) == [op |-> op, arg |-> <<>>]
Observe(op) == lastOp' = Op(op) /\ ret' = <<>> /\ checkFeedbacksCalled' = FALSE

\* history kept next to the program's state, read by no handler:
\*   cacheVia   fingerprint -> the socket its entry was fetched over, 0 once
\*              that socket has closed, -1 once a later handshake has completed
\*   imagesVia  the socket this.images was fetched over, 0 and -1 likewise
\*   owed       fingerprints whose entry predates a recorded push for their
\*              identity and has not been replaced by the result of a later query
\*   fresh      <<tick, n>> of the queries in flight that were issued after
\*              the last recorded push for their identity and can still settle
HistInit == [cacheVia |-> EmptyObj, imagesVia |-> 0, owed |-> {}, fresh |-> {}]

\* ----------------------------------------------------- connection manager
Live(s) == sockets[s] \in {"connecting", "errored", "open", "connected"}
FreeSlots == {s \in SocketIds : sockets[s] = "none"}
AllClosed == \A s \in SocketIds : sockets[s] = "none"

\* initQWebChannel: new WebSocket(...) plus the three handler registrations
initQWebChannel ==
    /\ FreeSlots # {}
    /\ LET s == CHOOSE x \in FreeSlots : \A y \in FreeSlots : x <= y
       IN sockets' = [sockets EXCEPT ![s] = "connecting"]

\* constructor (initQWebChannel) followed by init() (status WARNING 'offline')
Init ==
    /\ sockets = [s \in SocketIds |-> IF s = 1 THEN "connecting" ELSE "none"]
    /\ connectionWatchdog = FALSE
    /\ watchdogTimers = 0
    /\ status = [level |-> "WARNING", text |-> "offline"]
    /\ statusBy = 0
    /\ hasQueryFns = FALSE
    /\ images = <<>>
    /\ imageSetPending = {}
    /\ scheduler = 0
    /\ localFeedbackCache = EmptyObj
    /\ pendingFeedbackChanges = {}
    /\ cacheMisses = <<>>
    /\ cacheBuilder = FALSE
    /\ thisCacheBuilder = FALSE
    /\ cacheBuilderTimers = 0
    /\ inflight = {}
    /\ lastWritten = EmptyObj
    /\ refreshOwed = {}
    /\ hist = HistInit
    /\ lastOp = Op("init")
    /\ ret = <<>>
    /\ checkFeedbacksCalled = FALSE

updateConfig ==
    /\ initQWebChannel
    /\ Observe("updateConfig")
    /\ UNCHANGED <<connectionWatchdog, watchdogTimers, status, statusBy,
                   hasQueryFns, images, imageSetPending, scheduler, cacheVars>>

\* the setInterval callback armed by the close handler
WatchdogTick ==
    /\ watchdogTimers > 0
    /\ initQWebChannel
    /\ Observe("watchdog")
    /\ UNCHANGED <<connectionWatchdog, watchdogTimers, status, statusBy,
                   hasQueryFns, images, imageSetPending, scheduler, cacheVars>>

\* socket.on('open'): clear the watchdog, start the QWebChannel handshake
SocketOpen(s) ==
    /\ sockets[s] = "connecting"
    /\ sockets' = [sockets EXCEPT ![s] = "open"]
    /\ IF connectionWatchdog
       THEN /\ watchdogTimers' = watchdogTimers - 1
            /\ connectionWatchdog' = FALSE
       ELSE UNCHANGED <<connectionWatchdog, watchdogTimers>>
    /\ Observe("open")
    /\ UNCHANGED <<status, statusBy, hasQueryFns, images, imageSetPending, scheduler, cacheVars>>

\* the QWebChannelEx callback: scheduler obtained, getImageSet requested,
\* query functions defined, push handlers connected, status OK
ChannelReady(s) ==
    /\ sockets[s] = "open"
    /\ sockets' = [sockets EXCEPT ![s] = "connected"]
    /\ imageSetPending' = imageSetPending \cup {s}
    /\ hasQueryFns' = TRUE
    /\ status' = [level |-> "OK", text |-> "Connected"]
    /\ statusBy' = s
    /\ scheduler' = s
    /\ hist' = [hist EXCEPT
                   !.cacheVia = [k \in DOMAIN hist.cacheVia |->
                                    IF hist.cacheVia[k] = 0 THEN -1 ELSE hist.cacheVia[k]],
                   !.imagesVia = IF hist.imagesVia = 0 /\ images # <<>> THEN -1 ELSE hist.imagesVia]
    /\ Observe("ready")
    /\ UNCHANGED <<connectionWatchdog, watchdogTimers, images, localFeedbackCache,
                   pendingFeedbackChanges, cacheMisses, cacheBuilder, thisCacheBuilder,
                   cacheBuilderTimers, inflight, lastWritten, refreshOwed>>

\* socket.on('error'): logged only; ws emits 'close' after it
SocketError(s) ==
    /\ sockets[s] \in {"connecting", "open", "connected"}
    /\ sockets' = [sockets EXCEPT ![s] = "errored"]
    /\ imageSetPending' = imageSetPending \ {s}
    /\ Observe("error")
    /\ UNCHANGED <<connectionWatchdog, watchdogTimers, status, statusBy,
                   hasQueryFns, images, scheduler, cacheVars>>

\* the socket is gone: the callbacks of the calls sent over it are never
\* invoked, so the promises waiting for them stay pending
Abandon(s) ==
    /\ inflight' = {IF q.sock # s THEN q
                    ELSE IF q.phase = "composite" THEN [q EXCEPT !.sock = 0]  \* sharp runs locally
                    ELSE [q EXCEPT !.phase = "hung"] : q \in inflight}
    /\ hist' = [hist EXCEPT
                   !.cacheVia = [k \in DOMAIN hist.cacheVia |->
                                    IF hist.cacheVia[k] = s THEN 0 ELSE hist.cacheVia[k]],
                   !.imagesVia = IF hist.imagesVia = s THEN 0 ELSE hist.imagesVia,
                   !.fresh = hist.fresh \ {<<q.tick, q.n>> :
                                              q \in {r \in inflight : r.sock = s /\ r.phase # "composite"}}]

SocketCloseAlwaysArms(s) ==
    /\ Live(s)
    /\ sockets' = [sockets EXCEPT ![s] = "none"]
    /\ imageSetPending' = imageSetPending \ {s}
    /\ status' = [level |-> "WARNING", text |-> "Disconnected"]
    /\ statusBy' = 0
    /\ connectionWatchdog' = TRUE
    /\ watchdogTimers' = watchdogTimers + 1
    /\ Observe(IF connectionWatchdog THEN "close:armed" ELSE "close:arm")
    /\ Abandon(s)
    /\ UNCHANGED <<hasQueryFns, images, scheduler, localFeedbackCache, pendingFeedbackChanges,
                   cacheMisses, cacheBuilder, thisCacheBuilder, cacheBuilderTimers,
                   lastWritten, refreshOwed>>

SocketCloseArmsOnlyAfterConnected(s) ==
    /\ Live(s)
    /\ sockets' = [sockets EXCEPT ![s] = "none"]
    /\ imageSetPending' = imageSetPending \ {s}
    /\ IF ~connectionWatchdog /\ sockets[s] = "connected"
       THEN /\ status' = [level |-> "WARNING", text |-> "Disconnected"]
            /\ statusBy' = 0
            /\ connectionWatchdog' = TRUE
            /\ watchdogTimers' = watchdogTimers + 1
       ELSE /\ statusBy' = IF statusBy = s THEN -1 ELSE statusBy
            /\ UNCHANGED <<status, connectionWatchdog, watchdogTimers>>
    /\ Observe(IF connectionWatchdog THEN "close:armed" ELSE "close:arm")
    /\ Abandon(s)
    /\ UNCHANGED <<hasQueryFns, images, scheduler, localFeedbackCache, pendingFeedbackChanges,
                   cacheMisses, cacheBuilder, thisCacheBuilder, cacheBuilderTimers,
                   lastWritten, refreshOwed>>

\* socket.on('close'): only when no watchdog is held, report Disconnected and
\* arm the 5 s interval
SocketClose(s) ==
    /\ Live(s)
    /\ sockets' = [sockets EXCEPT ![s] = "none"]
    /\ imageSetPending' = imageSetPending \ {s}
    /\ IF ~connectionWatchdog
       THEN /\ status' = [level |-> "WARNING", text |-> "Disconnected"]
            /\ statusBy' = 0
            /\ connectionWatchdog' = TRUE
            /\ watchdogTimers' = watchdogTimers + 1
       ELSE /\ statusBy' = IF statusBy = s THEN -1 ELSE statusBy
            /\ UNCHANGED <<status, connectionWatchdog, watchdogTimers>>
    /\ Observe(IF connectionWatchdog THEN "close:armed" ELSE "close:arm")
    /\ Abandon(s)
    /\ UNCHANGED <<hasQueryFns, images, scheduler, localFeedbackCache, pendingFeedbackChanges,
                   cacheMisses, cacheBuilder, thisCacheBuilder, cacheBuilderTimers,
                   lastWritten, refreshOwed>>

\* reply of scheduler.getImageSet("automation.glow.base", ...)
ImageSets == { [x \in {<<"glow1">>} |-> <<"OVL">>] }

ImageSetReply(s) ==
    /\ s \in imageSetPending
    /\ \E reply \in ImageSets : images' = <<reply>>
    /\ imageSetPending' = imageSetPending \ {s}
    /\ hist' = [hist EXCEPT !.imagesVia = s]
    /\ Observe("imageSet")
    /\ UNCHANGED <<sockets, connectionWatchdog, watchdogTimers, status, statusBy,
                   hasQueryFns, scheduler, localFeedbackCache, pendingFeedbackChanges,
                   cacheMisses, cacheBuilder, thisCacheBuilder, cacheBuilderTimers,
                   inflight, lastWritten, refreshOwed>>

ConnNext ==
    \/ updateConfig
    \/ WatchdogTick
    \/ \E s \in SocketIds : SocketOpen(s)
    \/ \E s \in SocketIds : ChannelReady(s)
    \/ \E s \in SocketIds : SocketError(s)
    \/ \E s \in SocketIds : SocketClose(s)
    \/ \E s \in SocketIds : ImageSetReply(s)

ConnSpec == Init /\ [][ConnNext]_vars

ConnLiveSpec == ConnSpec /\ WF_vars(WatchdogTick)

\* ------------------------------------------------------------ host's banks
\* feedback instances the host evaluates: event.type and event.options
IdAF == <<"a", "~", "f">>
IdAFX == <<"a", "~", "f", "~", "x">>
OptNone == <<>>
OptK == << <<"k", "1">> >>

Banks == { [type |-> IdAF, options |-> OptNone],
           [type |-> IdAF, options |-> OptK] }

\* banks whose type has a third "~" component
KeyBanks == { [type |-> IdAF, options |-> OptNone],
              [type |-> IdAFX, options |-> OptNone],
              [type |-> IdAFX, options |-> OptK] }

\* a single bank, for the sessions whose replies carry image fields
ImageBanks == { [type |-> IdAF, options |-> OptNone] }

\* banks of two actors, a and ba, for the sessions with bulk eviction
IdBAF == <<"b", "a", "~", "f">>

EvictBanks == { [type |-> IdAF, options |-> OptNone],
                [type |-> IdBAF, options |-> OptNone] }

\* prefixes removeAllKeysWithPrefix is called with: one per actor
EvictPrefixes == { <<"a", "~">>, <<"b", "a", "~">> }

AllBanks == Banks \cup KeyBanks \cup ImageBanks \cup EvictBanks

\* (actorId, feedbackId) pairs the engine pushes feedback-changed events for
PushIds == { << <<"a">>, <<"f">> >> }

\* raw replies of _cmp_v1_queryFeedbackState: <<>> is text JSON.parse rejects
QueryReplies ==
    { <<>>,
      << [text |-> <<"v1">>] >> }

\* replies with image fields: a bare image name next to an overlay name, and
\* a play-state-conditional overlay over an embedded base image
ImageQueryReplies ==
    { << [text |-> <<"v1">>] >>,
      << [overlayImageName |-> <<"glow1">>, imageName |-> <<"glow1">>] >>,
      << [overlayQueryKey |-> <<"layer1">>, overlayImageName_running |-> <<"glow1">>,
          overlayImageName_paused |-> <<"glow2">>, png64 |-> <<"BASE">>] >> }

\* replies of getValueForKey("newblue.automation.layerstate")
NoPlayStates == { EmptyObj }

PlayStateReplies ==
    { EmptyObj,
      [x \in {<<"layer1">>} |-> [playState |-> <<"running">>]] }

\* ------------------------------------------------------ queryFeedbackState
\* s.playState of the layer the query key names, "unknown" without a record
PlayStateOf(playStates, key) ==
    IF key \in DOMAIN playStates /\ Has(playStates[key], "playState")
    THEN playStates[key].playState
    ELSE <<"unknown">>

\* if (value.hasOwnProperty(from)) { if (playState === when) value[to] = value[from]; delete value[from] }
Collapse(value, from, to, when, playState) ==
    IF Has(value, from)
    THEN Del(IF playState = when THEN Put(value, to, value[from]) ELSE value, from)
    ELSE value

FoldOverlay(value, playStates) ==
    IF Has(value, "overlayQueryKey")
    THEN LET ps == PlayStateOf(playStates, value.overlayQueryKey)
             v1 == Collapse(value, "overlayImageName_running", "overlayImageName", <<"running">>, ps)
             v2 == Collapse(v1, "overlayImageName_paused", "overlayImageName", <<"paused">>, ps)
         IN Del(v2, "overlayQueryKey")
    ELSE value

FoldPng(value, playStates) ==
    IF Has(value, "pngQueryKey")
    THEN LET ps == PlayStateOf(playStates, value.pngQueryKey)
             \* the running branch assigns png_running to itself, then deletes it
             v1 == Collapse(value, "png_running", "png_running", <<"running">>, ps)
             v2 == Collapse(v1, "png_paused", "png", <<"paused">>, ps)
         IN Del(v2, "pngQueryKey")
    ELSE value

\* the getValueForKey callback's work on the parsed value
FoldPlayState(value, playStates) == FoldPng(FoldOverlay(value, playStates), playStates)

\* ---------------------------------------------------- queryFeedbackDetails
\* this.images[name]; <<>> when the set has no such image
ImageOf(imgs, name) == IF name \in DOMAIN imgs THEN <<imgs[name]>> ELSE <<>>

\* sharp(base).composite([{input: overlay, tile, blend: 'over'}])
Composite(base, overlay) == <<"over(">> \o base \o <<",">> \o overlay \o <<")">>

\* the .then handler on queryFeedbackState's result: what it does with state
\*   "throw"     this.images is undefined and indexed: the handler throws
\*   "composite" sharp is started with state.png64 and the overlay
\*   "resolve"   resolve(state)
ResolveDetails(state, imgs) ==
    IF Has(state, "overlayImageName")
    THEN IF imgs = <<>> THEN [kind |-> "throw", state |-> state, overlay |-> <<>>]
         ELSE LET layerImageData == ImageOf(imgs[1], state.overlayImageName)
                  st == Del(state, "layerImageName")
              IN IF layerImageData = <<>>
                 THEN [kind |-> "resolve", state |-> st, overlay |-> <<>>]
                 ELSE IF Has(st, "png64")
                 THEN [kind |-> "composite", state |-> st, overlay |-> layerImageData[1]]
                 \* fall back: state.png64 = this.layerImageData, a field never set
                 ELSE [kind |-> "resolve", state |-> Put(st, "png64", Undefined), overlay |-> <<>>]
    ELSE IF Has(state, "imageName")
    THEN IF imgs = <<>> THEN [kind |-> "throw", state |-> state, overlay |-> <<>>]
         ELSE LET data == ImageOf(imgs[1], state.imageName)
              IN [kind |-> "resolve",
                  state |-> Del(Put(state, "png64", IF data = <<>> THEN Undefined ELSE data[1]),
                                "imageName"),
                  overlay |-> <<>>]
    ELSE [kind |-> "resolve", state |-> state, overlay |-> <<>>]

\* ------------------------------------------------------------- feedback()
\* the image-name post-processing of a cache hit (a copy, the entry is kept)
ProcessResult(result, imgs) ==
    IF Has(result, "imageName")
    THEN LET processed == Del(result, "imageName")
             imageData == ImageOf(imgs[1], result.imageName)
         IN IF imageData # <<>> THEN Put(processed, "png64", imageData[1]) ELSE processed
    ELSE result

Min(a, b) == IF a < b THEN a ELSE b

\* lines 545-560: with a non-empty queue, clear the timer this.cacheBuilder
\* holds (if any) and store a new interval in the module-level cacheBuilder
ArmCacheBuilder(queue) ==
    IF Len(queue) > 0
    THEN /\ thisCacheBuilder' = FALSE
         /\ cacheBuilder' = TRUE
         /\ cacheBuilderTimers' =
                Min((IF thisCacheBuilder /\ cacheBuilderTimers > 0
                     THEN cacheBuilderTimers - 1 ELSE cacheBuilderTimers) + 1, MaxTimers)
    ELSE UNCHANGED <<thisCacheBuilder, cacheBuilder, cacheBuilderTimers>>

\* lines 511-542: the queue feedback() leaves: a miss is pushed when the
\* fingerprint has no entry, or has one and the identity is marked stale
FeedbackQueuePushesTwice(event) ==
    LET cacheKey == makeCacheKeyUsingOptions(event.type, event.options)
        miss == [id |-> event.type, options |-> event.options]
    IN IF cacheKey \in DOMAIN localFeedbackCache
       THEN IF event.type \in pendingFeedbackChanges THEN Append(cacheMisses, miss) ELSE cacheMisses
       ELSE Append(Append(cacheMisses, miss), miss)

FeedbackQueue(event) ==
    LET cacheKey == makeCacheKeyUsingOptions(event.type, event.options)
        miss == [id |-> event.type, options |-> event.options]
    IN IF cacheKey \in DOMAIN localFeedbackCache
       THEN IF event.type \in pendingFeedbackChanges THEN Append(cacheMisses, miss) ELSE cacheMisses
       ELSE Append(cacheMisses, miss)

\* lines 515-532, 562: the value feedback() returns
FeedbackReturn(event) ==
    LET cacheKey == makeCacheKeyUsingOptions(event.type, event.options)
    IN IF cacheKey \in DOMAIN localFeedbackCache
       THEN <<ProcessResult(localFeedbackCache[cacheKey], images)>>
       ELSE <<>>

feedback(event) ==
    LET cacheKey == makeCacheKeyUsingOptions(event.type, event.options)
        hit == cacheKey \in DOMAIN localFeedbackCache
        stale == event.type \in pendingFeedbackChanges
        queue == FeedbackQueue(event)
    IN /\ Len(queue) <= MaxQueue
       /\ IF hit /\ Has(localFeedbackCache[cacheKey], "imageName") /\ images = <<>>
          THEN \* this.images is undefined: the lookup throws out of feedback()
               /\ lastOp' = [op |-> "feedback:throw", arg |-> <<event>>]
               /\ ret' = <<>>
               /\ UNCHANGED <<cacheMisses, thisCacheBuilder, cacheBuilder, cacheBuilderTimers>>
          ELSE /\ cacheMisses' = queue
               /\ ArmCacheBuilder(queue)
               /\ ret' = FeedbackReturn(event)
               /\ lastOp' = [op |-> IF ~hit THEN "feedback:miss"
                                     ELSE IF stale THEN "feedback:stale" ELSE "feedback:hit",
                              arg |-> <<event>>]
       /\ refreshOwed' = refreshOwed \ {event}
       /\ checkFeedbacksCalled' = FALSE
       /\ UNCHANGED <<connVars, localFeedbackCache, pendingFeedbackChanges, inflight, lastWritten, hist>>

\* -------------------------------------------------- feedback-changed push
Connected == \E s \in SocketIds : sockets[s] = "connected"

\* lines 207-213: mark the identity stale, checkFeedbacks(feedbackKey)
FeedbackChangeEvent(actorId, feedbackId) ==
    /\ Connected
    /\ pendingFeedbackChanges' = pendingFeedbackChanges \cup {FeedbackKey(actorId, feedbackId)}
    /\ refreshOwed' = refreshOwed \cup {b \in AllBanks : b.type = FeedbackKey(actorId, feedbackId)}
    /\ lastOp' = Op("push")
    /\ ret' = <<>>
    /\ checkFeedbacksCalled' = TRUE
    /\ UNCHANGED <<connVars, localFeedbackCache, cacheMisses, cacheBuilder, thisCacheBuilder,
                   cacheBuilderTimers, inflight, lastWritten>>

handleFeedbackChangeEvent(actorId, feedbackId) ==
    /\ FeedbackChangeEvent(actorId, feedbackId)
    /\ hist' = hist

\* the same handler with the push recorded in the history: the entries of
\* the identity now predate a push, and the queries in flight for it were
\* issued before it
handleFeedbackChangeEventRecorded(actorId, feedbackId) ==
    /\ FeedbackChangeEvent(actorId, feedbackId)
    /\ hist' = [hist EXCEPT
                   !.owed = @ \cup {makeCacheKeyUsingOptions(b.type, b.options) :
                                       b \in {c \in AllBanks :
                                                 /\ c.type = FeedbackKey(actorId, feedbackId)
                                                 /\ makeCacheKeyUsingOptions(c.type, c.options)
                                                        \in DOMAIN localFeedbackCache}},
                   !.fresh = @ \ {<<q.tick, q.n>> :
                                     q \in {r \in inflight : FeedbackKey(r.actorId, r.feedbackId)
                                                                  = FeedbackKey(actorId, feedbackId)}}]

\* -------------------------------------------------- registry-changed push
\* setupFeedbacks, setupActions and initPresets (lib/, mixed into the
\* instance): they rebuild the static catalog and leave the cache state alone
SetupCatalog ==
    UNCHANGED <<localFeedbackCache, pendingFeedbackChanges, cacheMisses, cacheBuilder,
                thisCacheBuilder, cacheBuilderTimers, inflight, lastWritten, refreshOwed, hist>>

\* lines 114-120 (allowsFeedbackCacheRebuilding is read nowhere)
refreshIntegrations ==
    /\ SetupCatalog
    /\ Observe("refreshIntegrations")
    /\ UNCHANGED connVars

\* lines 199-204: the handler starts the debounce, whose timeout runs
\* refreshIntegrations
handleActorRegistryChangeEvent ==
    /\ Connected
    /\ refreshIntegrations

\* ---------------------------------------------------- rebuildFeedbackCache
Range(seq) == {seq[i] : i \in 1..Len(seq)}
UsedTicks == {q.tick : q \in inflight}
FreeTick == CHOOSE t \in 1..(MaxInflight + 1) : t \notin UsedTicks /\ \A u \in 1..(t - 1) : u \in UsedTicks

\* every marker dropped by a tick, whatever it popped
ClearedMarkersAll(queue) == pendingFeedbackChanges

\* line 447: delete this.pendingFeedbackChanges[miss.id] for each popped miss
ClearedMarkers(queue) == {m.id : m \in Range(queue)}

\* the query a popped miss starts: actorId and feedbackId are components 0, 1;
\* the call goes to the module-level scheduler, over the socket it belongs to,
\* and is never answered when that socket is no longer connected
QueryOf(miss, n, tick) ==
    LET components == Split(miss.id, Tilde)
    IN [tick |-> tick, n |-> n, id |-> miss.id,
        actorId |-> components[1], feedbackId |-> components[2],
        options |-> miss.options, sock |-> scheduler,
        phase |-> IF sockets[scheduler] = "connected" THEN "rpc" ELSE "hung",
        value |-> EmptyObj, overlay |-> <<>>]

rebuildFeedbackCache ==
    LET issued == {n \in 1..Len(cacheMisses) : Len(Split(cacheMisses[n].id, Tilde)) >= 2}
    IN /\ cacheBuilderTimers > 0
       /\ hasQueryFns => Cardinality(inflight) + Cardinality(issued) <= MaxInflight
       /\ cacheMisses' = <<>>
       /\ pendingFeedbackChanges' = pendingFeedbackChanges \ ClearedMarkers(cacheMisses)
       /\ IF hasQueryFns
          THEN \* every promise waits for its query
               /\ inflight' = inflight \cup {QueryOf(cacheMisses[n], n, FreeTick) : n \in issued}
               /\ hist' = [hist EXCEPT !.fresh = @ \cup {<<FreeTick, n>> : n \in
                               (IF sockets[scheduler] = "connected" THEN issued ELSE {})}]
               /\ checkFeedbacksCalled' = FALSE
          ELSE \* this.queryFeedbackDetails is not a function: each executor
               \* throws, each promise is rejected, allSettled runs at once
               /\ inflight' = inflight
               /\ hist' = hist
               /\ checkFeedbacksCalled' = (issued # {})
       \* lines 484-487: only the instance field is looked at, no timer is cleared
       /\ thisCacheBuilder' = FALSE
       /\ lastOp' = Op("tick")
       /\ ret' = <<>>
       /\ refreshOwed' = refreshOwed \ {[type |-> cacheMisses[n].id, options |-> cacheMisses[n].options] :
                                           n \in (IF hasQueryFns THEN issued ELSE {})}
       /\ UNCHANGED <<connVars, localFeedbackCache, cacheBuilder, cacheBuilderTimers, lastWritten>>

\* the .then of rebuildFeedbackCache's promise: cache the reply under the
\* key rebuilt from actorId~feedbackId, resolve; allSettled -> checkFeedbacks
WriteCacheKey(q) == makeCacheKeyUsingOptions(FeedbackKey(q.actorId, q.feedbackId), q.options)

HistAfterWrite(q) ==
    [hist EXCEPT !.cacheVia = Put(@, WriteCacheKey(q), q.sock),
                 !.owed = IF <<q.tick, q.n>> \in hist.fresh THEN @ \ {WriteCacheKey(q)} ELSE @,
                 !.fresh = @ \ {<<q.tick, q.n>>}]

\* the reply merged into the entry already there (Object.assign on the old
\* entry) instead of replacing it
WriteReplyMergesIntoEntry(q, reply) ==
    LET key == WriteCacheKey(q)
        old == IF key \in DOMAIN localFeedbackCache THEN localFeedbackCache[key] ELSE EmptyObj
        merged == [f \in (DOMAIN old) \cup (DOMAIN reply) |->
                      IF f \in DOMAIN reply THEN reply[f] ELSE old[f]]
    IN /\ localFeedbackCache' = Put(localFeedbackCache, key, merged)
       /\ lastWritten' = Put(lastWritten, key, reply)
       /\ hist' = HistAfterWrite(q)
       /\ inflight' = inflight \ {q}
       /\ checkFeedbacksCalled' = (\A r \in inflight \ {q} : r.tick # q.tick)

\* the result of a query overtaken by a push is dropped: the query settles
\* and nothing is written
WriteReplyDiscardsLate(q, reply) ==
    IF <<q.tick, q.n>> \in hist.fresh
    THEN /\ localFeedbackCache' = Put(localFeedbackCache, WriteCacheKey(q), reply)
         /\ lastWritten' = Put(lastWritten, WriteCacheKey(q), reply)
         /\ hist' = HistAfterWrite(q)
         /\ inflight' = inflight \ {q}
         /\ checkFeedbacksCalled' = (\A r \in inflight \ {q} : r.tick # q.tick)
    ELSE /\ inflight' = inflight \ {q}
         /\ checkFeedbacksCalled' = (\A r \in inflight \ {q} : r.tick # q.tick)
         /\ UNCHANGED <<localFeedbackCache, lastWritten, hist>>

WriteReply(q, reply) ==
    /\ localFeedbackCache' = Put(localFeedbackCache, WriteCacheKey(q), reply)
    /\ lastWritten' = Put(lastWritten, WriteCacheKey(q), reply)
    /\ hist' = HistAfterWrite(q)
    /\ inflight' = inflight \ {q}
    /\ checkFeedbacksCalled' = (\A r \in inflight \ {q} : r.tick # q.tick)

\* the failure handled by writing an empty entry and settling
HangWritesEmptyEntry(q) ==
    /\ localFeedbackCache' = Put(localFeedbackCache, WriteCacheKey(q), EmptyObj)
    /\ inflight' = inflight \ {q}
    /\ hist' = [hist EXCEPT !.fresh = @ \ {<<q.tick, q.n>>}]
    /\ checkFeedbacksCalled' = (\A r \in inflight \ {q} : r.tick # q.tick)
    /\ UNCHANGED lastWritten

\* a query whose promise can no longer settle stays pending for ever
Hang(q) ==
    /\ inflight' = (inflight \ {q}) \cup {[q EXCEPT !.phase = "hung"]}
    /\ hist' = [hist EXCEPT !.fresh = @ \ {<<q.tick, q.n>>}]
    /\ checkFeedbacksCalled' = FALSE
    /\ UNCHANGED <<localFeedbackCache, lastWritten>>

\* reply of _cmp_v1_queryFeedbackState: JSON.parse, then getValueForKey
QueryStateReply(q, raw) ==
    /\ q \in inflight /\ q.phase = "rpc"
    /\ sockets[q.sock] = "connected"
    /\ IF raw = <<>>
       THEN \* reject("Bogus response"): queryFeedbackDetails has no handler for it
            Hang(q)
       ELSE /\ inflight' = (inflight \ {q}) \cup {[q EXCEPT !.phase = "playstates", !.value = raw[1]]}
            /\ checkFeedbacksCalled' = FALSE
            /\ UNCHANGED <<localFeedbackCache, lastWritten, hist>>
    /\ lastOp' = Op("stateReply")
    /\ ret' = <<>>
    /\ UNCHANGED <<connVars, pendingFeedbackChanges, cacheMisses, cacheBuilder, thisCacheBuilder,
                   cacheBuilderTimers, refreshOwed>>

\* reply of getValueForKey: fold the play state, resolve queryFeedbackState,
\* run queryFeedbackDetails' handler and, unless sharp is started, the write
PlayStatesReply(q, playStates) ==
    /\ q \in inflight /\ q.phase = "playstates"
    /\ sockets[q.sock] = "connected"
    /\ LET d == ResolveDetails(FoldPlayState(q.value, playStates), images)
       IN CASE d.kind = "throw" -> Hang(q)
            [] d.kind = "composite" ->
                 /\ inflight' = (inflight \ {q}) \cup
                        {[q EXCEPT !.phase = "composite", !.value = d.state, !.overlay = d.overlay]}
                 /\ checkFeedbacksCalled' = FALSE
                 /\ UNCHANGED <<localFeedbackCache, lastWritten, hist>>
            [] OTHER -> WriteReply(q, d.state)
    /\ lastOp' = Op("playStatesReply")
    /\ ret' = <<>>
    /\ UNCHANGED <<connVars, pendingFeedbackChanges, cacheMisses, cacheBuilder, thisCacheBuilder,
                   cacheBuilderTimers, refreshOwed>>

\* sharp's toBuffer() settles: the composited payload, or the state as it was
CompositeDone(q, ok) ==
    /\ q \in inflight /\ q.phase = "composite"
    /\ WriteReply(q, IF ok THEN Put(q.value, "png64", Composite(q.value.png64, q.overlay))
                     ELSE q.value)
    /\ lastOp' = Op("compositeDone")
    /\ ret' = <<>>
    /\ UNCHANGED <<connVars, pendingFeedbackChanges, cacheMisses, cacheBuilder, thisCacheBuilder,
                   cacheBuilderTimers, refreshOwed>>

\* -------------------------------------------------- removeAllKeysWithPrefix
\* the prefix occurs anywhere in the key (String.prototype.includes)
StartsWithAnywhere(key, prefix) ==
    \E i \in 1..(Len(key) - Len(prefix) + 1) : SubSeq(key, i, i + Len(prefix) - 1) = prefix

\* String.prototype.startsWith
StartsWith(key, prefix) ==
    Len(key) >= Len(prefix) /\ SubSeq(key, 1, Len(prefix)) = prefix

removeAllKeysWithPrefix(prefix) ==
    LET kept == {key \in DOMAIN localFeedbackCache : ~StartsWith(key, prefix)}
    IN /\ localFeedbackCache' = [key \in kept |-> localFeedbackCache[key]]
       /\ hist' = [hist EXCEPT !.cacheVia = [key \in kept |-> hist.cacheVia[key]],
                                !.owed = @ \cap kept]
       /\ lastOp' = [op |-> "removeAllKeysWithPrefix", arg |-> <<prefix>>]
       /\ ret' = <<>>
       /\ checkFeedbacksCalled' = FALSE
       /\ UNCHANGED <<connVars, pendingFeedbackChanges, cacheMisses, cacheBuilder, thisCacheBuilder,
                      cacheBuilderTimers, inflight, lastWritten, refreshOwed>>

\* a session in which the first connection is established and stays up, the
\* host evaluates Banks and the engine answers with plain values (no reply
\* has an image field, so the image set is never consulted and its reply is
\* left out)
Next ==
    \/ \E s \in SocketIds : SocketOpen(s)
    \/ \E s \in SocketIds : ChannelReady(s)
    \/ \E b \in Banks : feedback(b)
    \/ \E p \in PushIds : handleFeedbackChangeEvent(p[1], p[2])
    \/ rebuildFeedbackCache
    \/ \E q \in inflight, raw \in QueryReplies : QueryStateReply(q, raw)
    \/ \E q \in inflight, ps \in NoPlayStates : PlayStatesReply(q, ps)

Spec == Init /\ [][Next]_vars

\* the same session with one bank and replies that carry image fields
ImageNext ==
    \/ \E s \in SocketIds : SocketOpen(s)
    \/ \E s \in SocketIds : ChannelReady(s)
    \/ \E s \in SocketIds : ImageSetReply(s)
    \/ \E b \in ImageBanks : feedback(b)
    \/ \E p \in PushIds : handleFeedbackChangeEvent(p[1], p[2])
    \/ rebuildFeedbackCache
    \/ \E q \in inflight, raw \in ImageQueryReplies : QueryStateReply(q, raw)
    \/ \E q \in inflight, ps \in PlayStateReplies : PlayStatesReply(q, ps)
    \/ \E q \in inflight, ok \in BOOLEAN : CompositeDone(q, ok)

ImageSpec == Init /\ [][ImageNext]_vars

\* the same session with banks whose type has more than two components
KeyNext ==
    \/ \E s \in SocketIds : SocketOpen(s)
    \/ \E s \in SocketIds : ChannelReady(s)
    \/ \E b \in KeyBanks : feedback(b)
    \/ rebuildFeedbackCache
    \/ \E q \in inflight : QueryStateReply(q, << [text |-> <<"v1">>] >>)
    \/ \E q \in inflight, ps \in NoPlayStates : PlayStatesReply(q, ps)

KeySpec == Init /\ [][KeyNext]_vars

\* the same session with banks of two actors, feedback-changed pushes and
\* bulk eviction by actor prefix
EvictNext ==
    \/ \E s \in SocketIds : SocketOpen(s)
    \/ \E s \in SocketIds : ChannelReady(s)
    \/ \E b \in EvictBanks : feedback(b)
    \/ \E p \in PushIds : handleFeedbackChangeEvent(p[1], p[2])
    \/ rebuildFeedbackCache
    \/ \E q \in inflight : QueryStateReply(q, << [text |-> <<"v1">>] >>)
    \/ \E q \in inflight, ps \in NoPlayStates : PlayStatesReply(q, ps)
    \/ \E prefix \in EvictPrefixes : removeAllKeysWithPrefix(prefix)

EvictSpec == Init /\ [][EvictNext]_vars

\* replies without and with a bare image name left in the resolved state
DropQueryReplies ==
    { << [text |-> <<"v1">>] >>,
      << [overlayImageName |-> <<"glow1">>, imageName |-> <<"glow1">>] >> }

\* a session in which connections drop and the watchdog reconnects, while the
\* host evaluates one bank; every attempt has opened or closed by the time
\* the watchdog fires again
DropNext ==
    \/ AllClosed /\ WatchdogTick
    \/ \E s \in SocketIds : SocketOpen(s)
    \/ \E s \in SocketIds : ChannelReady(s)
    \/ \E s \in SocketIds : ImageSetReply(s)
    \/ \E s \in SocketIds : SocketClose(s)
    \/ \E b \in ImageBanks : feedback(b)
    \/ rebuildFeedbackCache
    \/ \E q \in inflight, raw \in DropQueryReplies : QueryStateReply(q, raw)
    \/ \E q \in inflight, ps \in NoPlayStates : PlayStatesReply(q, ps)

DropSpec == Init /\ [][DropNext]_vars

\* replies that fail to parse, plain ones, and ones leaving a bare image name
FrameQueryReplies ==
    { <<>>,
      << [text |-> <<"v1">>] >>,
      << [overlayImageName |-> <<"glow1">>, imageName |-> <<"glow1">>] >> }

\* a session with every kind of handler: connection events with drops and
\* reconnects, evaluations of one bank, both push channels, ticks with
\* failing and succeeding queries, bulk eviction.  Every attempt has opened
\* or closed by the time the watchdog fires again, and the host evaluates
\* the bank while no miss is queued
FrameNext ==
    \/ AllClosed /\ WatchdogTick
    \/ \E s \in SocketIds : SocketOpen(s)
    \/ \E s \in SocketIds : ChannelReady(s)
    \/ \E s \in SocketIds : ImageSetReply(s)
    \/ \E s \in SocketIds : SocketError(s)
    \/ \E s \in SocketIds : SocketClose(s)
    \/ \E b \in ImageBanks : cacheMisses = <<>> /\ feedback(b)
    \/ \E p \in PushIds : handleFeedbackChangeEvent(p[1], p[2])
    \/ handleActorRegistryChangeEvent
    \/ rebuildFeedbackCache
    \/ \E q \in inflight, raw \in FrameQueryReplies : QueryStateReply(q, raw)
    \/ \E q \in inflight, ps \in NoPlayStates : PlayStatesReply(q, ps)
    \/ removeAllKeysWithPrefix(<<"a", "~">>)

FrameSpec == Init /\ [][FrameNext]_vars

\* the engine's value before and after a change, and a reply that fails to parse
RefreshQueryReplies ==
    { <<>>,
      << [text |-> <<"v1">>] >>,
      << [text |-> <<"v2">>] >> }

\* a session on one connection in which the engine's value changes: the host
\* evaluates one bank, pushes are recorded in the history
RefreshNext ==
    \/ \E s \in SocketIds : SocketOpen(s)
    \/ \E s \in SocketIds : ChannelReady(s)
    \/ \E b \in ImageBanks : feedback(b)
    \/ \E p \in PushIds : handleFeedbackChangeEventRecorded(p[1], p[2])
    \/ rebuildFeedbackCache
    \/ \E q \in inflight, raw \in RefreshQueryReplies : QueryStateReply(q, raw)
    \/ \E q \in inflight, ps \in NoPlayStates : PlayStatesReply(q, ps)

RefreshSpec == Init /\ [][RefreshNext]_vars

\* ------------------------------------------ makeCacheKeyUsingOptions alone
\* keys and option objects the function is applied to; property names are
\* not integer-like, so JSON.stringify walks them in insertion order
Keys == {IdAF, IdAFX, <<"a">>, <<"b", "~", "f">>}
OptionKeys == {"k", "j", "m"}
OptionValues == {"1", "2"}

\* the option objects of up to n properties, each as its pairs in insertion order
RECURSIVE OptionObjects(_)
OptionObjects(n) ==
    IF n = 0 THEN {<<>>}
    ELSE LET shorter == OptionObjects(n - 1)
             longer == {Append(o, <<k, v>>) :
                            o \in {x \in shorter : Len(x) = n - 1},
                            k \in OptionKeys, v \in OptionValues}
         IN shorter \cup {x \in longer : \A i, j \in 1..Len(x) : x[i][1] = x[j][1] => i = j}

\* one call of makeCacheKeyUsingOptions(key, options), its result in ret
CallMakeCacheKey(key, options) ==
    /\ lastOp' = [op |-> "makeCacheKeyUsingOptions", arg |-> <<key, options>>]
    /\ ret' = <<makeCacheKeyUsingOptions(key, options)>>
    /\ checkFeedbacksCalled' = FALSE
    /\ UNCHANGED <<connVars, cacheVars>>

KeyFnNext ==
    \E key \in Keys, options \in OptionObjects(MaxOptions) : CallMakeCacheKey(key, options)

KeyFnSpec == Init /\ [][KeyFnNext]_vars

\* ---------------------------------- queryFeedbackState's play-state folding
\* parsed replies: every combination of the play-state-conditional fields,
\* their query keys and the unsuffixed fields they collapse into
FoldFieldValues ==
    [overlayQueryKey |-> <<"layer1">>, overlayImageName_running |-> <<"glowR">>,
     overlayImageName_paused |-> <<"glowP">>, overlayImageName |-> <<"glow0">>,
     pngQueryKey |-> <<"layer1">>, png_running |-> <<"pngR">>,
     png_paused |-> <<"pngP">>, png |-> <<"png0">>]

FoldValues == {[f \in fields |-> FoldFieldValues[f]] : fields \in SUBSET DOMAIN FoldFieldValues}

\* replies of getValueForKey: no record for the layer, a record without
\* playState, the layer running, the layer paused
FoldPlayStates ==
    { EmptyObj,
      [x \in {<<"layer1">>} |-> [title |-> <<"t">>]],
      [x \in {<<"layer1">>} |-> [playState |-> <<"running">>]],
      [x \in {<<"layer1">>} |-> [playState |-> <<"paused">>]] }

\* lines 222-284 for one parsed reply and one play-state reply: the value
\* queryFeedbackState resolves with, in ret
ResolveFeedbackState(value, playStates) ==
    /\ lastOp' = [op |-> "queryFeedbackState", arg |-> <<value, playStates>>]
    /\ ret' = <<FoldPlayState(value, playStates)>>
    /\ checkFeedbacksCalled' = FALSE
    /\ UNCHANGED <<connVars, cacheVars>>

FoldNext ==
    \E value \in FoldValues, playStates \in FoldPlayStates : ResolveFeedbackState(value, playStates)

FoldSpec == Init /\ [][FoldNext]_vars

\* ================================================================ claims
Fingerprint(b) == makeCacheKeyUsingOptions(b.type, b.options)
MissOf(b) == [id |-> b.type, options |-> b.options]

\* C1: once a feedback-changed push for an identity has set the stale marker,
\* the next feedback() evaluation of every bank of that identity (each option
\* set) appends a miss for it, whatever ticks or evaluations of the other
\* banks of the identity happened since the push.  It is stated for the banks
\* in refreshOwed: those whose fingerprint has been neither evaluated nor
\* queried since the push, so that what the cache holds for them predates it.
C1_EachFingerprintRefreshedAfterPush ==
    [][\A b \in Banks :
          (b \in refreshOwed /\ feedback(b)) => cacheMisses' = Append(cacheMisses, MissOf(b))]_vars

\* C2: whenever the miss queue is empty (it is emptied only by a Rebuilder
\* tick) no Rebuilder interval is armed.
C2_TimerCancelledWhenDrained ==
    cacheMisses = <<>> => cacheBuilderTimers = 0

\* C3: a tick is waiting for its checkFeedbacks() only while one of its
\* queries still awaits a reply or a compositing result: once every query of
\* the tick has had its reply, parsable or not, the tick has completed.
C3_TickCompletesWhenQueriesSettle ==
    \A q \in inflight :
        \E r \in inflight : r.tick = q.tick /\ r.phase \in {"rpc", "playstates", "composite"}

\* C8: feedback() on a fingerprint without a cache entry returns undefined
\* and appends exactly one miss {id, options}; the cache and the stale
\* markers stay as they were.
C8_MissReturnsNothingAndEnqueuesOne ==
    [][\A b \in Banks :
          (feedback(b) /\ Fingerprint(b) \notin DOMAIN localFeedbackCache)
              => /\ ret' = <<>>
                 /\ cacheMisses' = Append(cacheMisses, MissOf(b))
                 /\ localFeedbackCache' = localFeedbackCache
                 /\ pendingFeedbackChanges' = pendingFeedbackChanges]_vars

\* Scenario A: the first evaluation of a~f with no options
C8_Witness ==
    /\ lastOp = [op |-> "feedback:miss", arg |-> <<[type |-> IdAF, options |-> OptNone]>>]
    /\ ret = <<>>
    /\ cacheMisses = <<[id |-> IdAF, options |-> OptNone]>>
    /\ localFeedbackCache = EmptyObj

\* C4: the status indicator reads OK/"Connected" only while the socket whose
\* handshake reported it is still there: every close of that socket, with or
\* without a reconnect timer armed, has replaced it by WARNING/"Disconnected".
C4_StatusNotOKAfterClose ==
    status.level = "OK" => (statusBy \in SocketIds /\ Live(statusBy))

\* C5: at most one reconnect interval is alive at any time.
C5_AtMostOneReconnectTimer ==
    watchdogTimers <= 1

\* a socket has just closed while the reconnect timer was already armed
C5_Witness ==
    lastOp.op = "close:armed" /\ watchdogTimers = 1 /\ connectionWatchdog

\* C6: the reconnect timer is armed only while no socket is connecting, open
\* or connected.
C6_TimerOnlyWhileDisconnected ==
    watchdogTimers > 0 => \A s \in SocketIds : sockets[s] \notin {"connecting", "open", "connected"}

\* C7: whenever every socket has closed a reconnect timer is armed, and from
\* such a state a new open attempt (a socket created by initQWebChannel)
\* eventually follows.
C7_RetryRunsForever ==
    /\ [](AllClosed => watchdogTimers > 0)
    /\ (AllClosed ~> ~AllClosed)

\* the connection that was reported Connected has dropped and nothing is left
C7_Witness ==
    AllClosed /\ watchdogTimers = 1 /\ status.text = "Disconnected" /\ hasQueryFns

\* what a hit on the written value w must return, said without the code's
\* words: w itself, except that a bare image name is resolved, i.e. the
\* field imageName is gone and png64 is the image set's payload of that name
\* when the set has one
ResolvedImageName(w, imgs) ==
    IF "imageName" \in DOMAIN w
    THEN LET known == w.imageName \in DOMAIN imgs[1]
         IN [f \in ((DOMAIN w) \ {"imageName"}) \cup (IF known THEN {"png64"} ELSE {}) |->
                IF f = "png64" /\ known THEN imgs[1][w.imageName] ELSE w[f]]
    ELSE w

C10_WrittenUnderTheMissFingerprint ==
    [][\A q \in inflight :
          (\A r \in inflight' : ~(r.tick = q.tick /\ r.n = q.n))
              => LET key == makeCacheKeyUsingOptions(q.id, q.options)
                 IN /\ key \in DOMAIN localFeedbackCache'
                    /\ \A k \in (DOMAIN localFeedbackCache') \ {key} :
                          k \in DOMAIN localFeedbackCache
                          /\ localFeedbackCache'[k] = localFeedbackCache[k]]_vars

\* C11: makeCacheKeyUsingOptions(key, options) returns key itself, with no
\* suffix, for every key when options has no properties.
C11_EmptyOptionsKeepTheKey ==
    (lastOp.op = "makeCacheKeyUsingOptions" /\ lastOp.arg[2] = <<>>) => ret = <<lastOp.arg[1]>>

C11_Witness ==
    /\ lastOp = [op |-> "makeCacheKeyUsingOptions", arg |-> <<IdAF, <<>>>>]
    /\ ret = <<IdAF>>

\* the two option objects hold the same key/value pairs
SamePairs(opts1, opts2) == Range(opts1) = Range(opts2)

\* C12: two calls of makeCacheKeyUsingOptions with the same key and with
\* option objects holding the same key/value pairs return the same
\* fingerprint, also when the pairs were inserted in a different order.
C12_SamePairsSameFingerprint ==
    [][(/\ lastOp.op = "makeCacheKeyUsingOptions"
        /\ lastOp'.op = "makeCacheKeyUsingOptions"
        /\ lastOp'.arg[1] = lastOp.arg[1]
        /\ SamePairs(lastOp'.arg[2], lastOp.arg[2])) => ret' = ret]_vars

\* the play-state-conditional pairs: query key, *_running, *_paused, the
\* unsuffixed field
ConditionalPairs ==
    { [key |-> "overlayQueryKey", running |-> "overlayImageName_running",
       paused |-> "overlayImageName_paused", field |-> "overlayImageName"],
      [key |-> "pngQueryKey", running |-> "png_running",
       paused |-> "png_paused", field |-> "png"] }

\* the layer's play-state record says state
LayerIs(playStates, layer, state) ==
    /\ layer \in DOMAIN playStates
    /\ "playState" \in DOMAIN playStates[layer]
    /\ playStates[layer].playState = state

\* C13: for each play-state-conditional pair whose query key the reply
\* carries, the value queryFeedbackState resolves with has the unsuffixed
\* field set to the *_running value when the layer is running, to the
\* *_paused value when it is paused, and left as it was when the layer has no
\* play-state record; both suffixed fields and the query key are gone.
C13_ConditionalPairsCollapse ==
    lastOp.op = "queryFeedbackState" =>
        LET value == lastOp.arg[1]
            playStates == lastOp.arg[2]
            resolved == ret[1]
        IN \A p \in ConditionalPairs :
              p.key \in DOMAIN value =>
                  /\ (LayerIs(playStates, value[p.key], <<"running">>) /\ p.running \in DOMAIN value)
                        => (p.field \in DOMAIN resolved /\ resolved[p.field] = value[p.running])
                  /\ (LayerIs(playStates, value[p.key], <<"paused">>) /\ p.paused \in DOMAIN value)
                        => (p.field \in DOMAIN resolved /\ resolved[p.field] = value[p.paused])
                  /\ value[p.key] \notin DOMAIN playStates
                        => /\ (p.field \in DOMAIN resolved) = (p.field \in DOMAIN value)
                           /\ p.field \in DOMAIN value => resolved[p.field] = value[p.field]
                  /\ {p.key, p.running, p.paused} \cap DOMAIN resolved = {}

\* key is prefix followed by something (possibly nothing)
BeginsWith(key, prefix) ==
    Len(key) >= Len(prefix) /\ \A i \in 1..Len(prefix) : key[i] = prefix[i]

\* C14: removeAllKeysWithPrefix(prefix) deletes every cache entry whose
\* fingerprint begins with prefix, leaves every other entry as it was, and
\* leaves the miss queue and the stale markers unchanged.
C14_EvictsExactlyThePrefix ==
    [][lastOp'.op = "removeAllKeysWithPrefix" =>
          LET prefix == lastOp'.arg[1]
          IN /\ DOMAIN localFeedbackCache' =
                    {key \in DOMAIN localFeedbackCache : ~BeginsWith(key, prefix)}
             /\ \A key \in DOMAIN localFeedbackCache' :
                    localFeedbackCache'[key] = localFeedbackCache[key]
             /\ cacheMisses' = cacheMisses
             /\ pendingFeedbackChanges' = pendingFeedbackChanges]_vars

\* Scenario E: after removeAllKeysWithPrefix("a~") the entry of actor a,
\* written earlier, is gone and the entry of actor ba is still there, with a
\* stale marker and a queued miss untouched
C14_Witness ==
    /\ lastOp = [op |-> "removeAllKeysWithPrefix", arg |-> << <<"a", "~">> >>]
    /\ {Fingerprint(b) : b \in EvictBanks} \subseteq DOMAIN lastWritten
    /\ DOMAIN localFeedbackCache = {IdBAF}
    /\ pendingFeedbackChanges # {}
    /\ cacheMisses # <<>>

\* C15: once a connection has closed and a later handshake has completed,
\* feedback() returns no cache entry that was written over the closed
\* connection, and resolves no image name against the image set fetched over
\* a closed connection.
C15_NothingSurvivesAConnectionDrop ==
    [][\A b \in ImageBanks :
          (feedback(b) /\ ret' # <<>>)
              => /\ hist.cacheVia[Fingerprint(b)] # -1
                 /\ "imageName" \in DOMAIN localFeedbackCache[Fingerprint(b)]
                       => hist.imagesVia # -1]_vars

\* C16: at most one Rebuilder interval is alive at any time, whatever
\* sequence of feedback() evaluations and ticks has run.
C16_AtMostOneRebuilderTimer ==
    cacheBuilderTimers <= 1

\* C17: a step changes localFeedbackCache only if it is the write of a query
\* whose reply was parsed (the query settles in that step and only the entry
\* of its key changes) or a bulk eviction; evaluations, pushes, connection
\* events and failed replies leave every entry as it was.
C17_OnlyRebuilderWritesAndEviction ==
    [][localFeedbackCache' # localFeedbackCache =>
          \/ lastOp'.op = "removeAllKeysWithPrefix"
          \/ /\ lastOp'.op \in {"playStatesReply", "compositeDone"}
             /\ \E q \in inflight :
                   /\ q.phase \in {"playstates", "composite"}
                   /\ \A r \in inflight' : ~(r.tick = q.tick /\ r.n = q.n)
                   /\ \A k \in (DOMAIN localFeedbackCache) \cup (DOMAIN localFeedbackCache') :
                         k # WriteCacheKey(q) =>
                             /\ k \in DOMAIN localFeedbackCache
                             /\ k \in DOMAIN localFeedbackCache'
                             /\ localFeedbackCache'[k] = localFeedbackCache[k]]_vars

\* an evaluation has just post-processed the image name of a hit: the entry
\* still carries the name, the returned copy does not
C17_Witness ==
    /\ lastOp.op = "feedback:hit"
    /\ IdAF \in DOMAIN localFeedbackCache
    /\ "imageName" \in DOMAIN localFeedbackCache[IdAF]
    /\ ret # <<>>
    /\ "imageName" \notin DOMAIN ret[1]
    /\ \E q \in inflight : q.phase = "hung"

\* identities a marker can be kept for
MarkerIds == {b.type : b \in AllBanks} \cup {FeedbackKey(p[1], p[2]) : p \in PushIds}

\* C18: the stale marker of an identity I is set only by a feedback-changed
\* push and is cleared only by a tick that pops a miss whose id is I:
\* feedback() never clears it and a tick popping no miss of I leaves it set.
C18_MarkerSetByPushClearedByItsMiss ==
    [][\A I \in MarkerIds :
          /\ (I \notin pendingFeedbackChanges /\ I \in pendingFeedbackChanges')
                => (lastOp'.op = "push" /\ \E p \in PushIds : I = FeedbackKey(p[1], p[2]))
          /\ (I \in pendingFeedbackChanges /\ I \notin pendingFeedbackChanges')
                => (lastOp'.op = "tick" /\ \E n \in 1..Len(cacheMisses) : cacheMisses[n].id = I)]_vars

\* a push has marked a~f while its entry was in the cache, an evaluation
\* queued the refresh and a tick has popped the miss: the marker is gone and
\* the refresh query is out
C18_Witness ==
    /\ lastOp.op = "tick"
    /\ pendingFeedbackChanges = {}
    /\ IdAF \in hist.owed
    /\ \E q \in inflight : q.id = IdAF /\ q.phase = "rpc" /\ <<q.tick, q.n>> \in hist.fresh
    /\ IdAF \in DOMAIN localFeedbackCache

\* a tick with nothing queued has run while the marker was set
C18_WitnessKept ==
    /\ lastOp.op = "tick"
    /\ inflight = {}
    /\ IdAF \in pendingFeedbackChanges

\* C19: nothing orders query completions against pushes or discards a late
\* result: whenever a query whose reply was parsed settles, its result is
\* the cache entry of its key afterwards, whatever push or later query for
\* the key happened since it was issued; so the interleaving in which the
\* result of a query issued before a push is written after it is reachable.
C19_LateResultIsWritten ==
    [][\A q \in inflight :
          (/\ q.phase = "playstates"
           /\ lastOp'.op = "playStatesReply"
           /\ \A r \in inflight' : ~(r.tick = q.tick /\ r.n = q.n))
              => /\ WriteCacheKey(q) \in DOMAIN localFeedbackCache'
                 /\ localFeedbackCache'[WriteCacheKey(q)] = q.value]_vars

\* the interleaving: the entry of a~f predates a push (it is owed a refresh),
\* the marker of that push is still set, and the step just taken has written
\* v1, the result of a query issued before the push, over the entry
C19_Witness ==
    /\ lastOp.op = "playStatesReply"
    /\ checkFeedbacksCalled
    /\ IdAF \in hist.owed
    /\ IdAF \in pendingFeedbackChanges
    /\ localFeedbackCache[IdAF] = [text |-> <<"v1">>]
    /\ cacheMisses = <<>>
    /\ inflight = {}

\* C20: a refresh requested by a push is never lost: while the entry of a
\* fingerprint predates a push for its identity and has not been replaced by
\* the result of a query issued after the push, the stale marker is set, or a
\* miss for the fingerprint is queued, or a query for it issued after the
\* push is still able to settle.
C20_RefreshNeverLost ==
    \A b \in ImageBanks :
        Fingerprint(b) \in hist.owed =>
            \/ b.type \in pendingFeedbackChanges
            \/ \E n \in 1..Len(cacheMisses) : cacheMisses[n] = MissOf(b)
            \/ \E q \in inflight : /\ WriteCacheKey(q) = Fingerprint(b)
                                   /\ <<q.tick, q.n>> \in hist.fresh

\* C21: at most one socket is connecting, open or connected at any time
\* (so the push handlers are connected on at most one live channel).
C21_AtMostOneLiveSocket ==
    Cardinality({s \in SocketIds : sockets[s] \in {"connecting", "open", "connected"}}) <= 1

====
